---- MODULE Spec2Model ----
(***************************************************************************)
(* cargo-mcp: the command runner (runCargoCommand), the executable locator *)
(* (findCargoExecutable), the result formatter (formatCommandResult) and   *)
(* the tool handlers of the MCP server that call them.                     *)
(*                                                                         *)
(* Text (a JavaScript string whose content matters) is a sequence of       *)
(* characters, each a one-character string; a character outside ASCII is   *)
(* named by its code point ("U+00E9").  A chunk (a Buffer delivered by a   *)
(* 'data' event) is a sequence of byte values.  Command-line arguments and *)
(* paths are atomic strings.  A JavaScript value that may be null is a     *)
(* record tagged with its type.                                            *)
(***************************************************************************)
EXTENDS Integers, Sequences, FiniteSets, TLC

\* ------------------------------------------------------------------ bounds
\* Invocation slots that may be in flight at the same time.
NumCalls == 2
\* Data events delivered, in total, to the invocations in flight.
MaxData == 2
\* Pieces a sample text handed to the formatter is made of.
MaxPieces == 2

Calls == 1..NumCalls

\* --------------------------------------------------------- JavaScript values
JsNull == [type |-> "null"]
JsNum(n) == [type |-> "number", value |-> n]

\* `v || ...` takes the right operand when v is falsy: null and 0 are.
JsFalsy(v) == v.type = "null" \/ (v.type = "number" /\ v.value = 0)

\* An optional string parameter (undefined is <<>>, a string s is <<s>>) is
\* truthy when it is defined and not the empty string.
TruthyStr(opt) == opt # <<>> /\ opt[1] # ""

\* ------------------------------------------------------------------- text
NL == "\n"
ReplacementChar == "U+FFFD"

StdoutLabel == <<"S", "T", "D", "O", "U", "T", ":", NL>>
StderrLabel == <<"S", "T", "D", "E", "R", "R", ":", NL>>
ExitCodeLabel == <<"E", "x", "i", "t", " ", "c", "o", "d", "e", ":", " ">>

Digits == <<"0", "1", "2", "3", "4", "5", "6", "7", "8", "9">>

RECURSIVE NatToText(_)
NatToText(n) ==
  IF n < 10 THEN <<Digits[n + 1]>>
  ELSE NatToText(n \div 10) \o <<Digits[(n % 10) + 1]>>

\* The text a template literal `${v}` yields for a number or for null.
TemplateText(v) ==
  IF v.type = "null" THEN <<"n", "u", "l", "l">>
  ELSE IF v.value < 0 THEN <<"-">> \o NatToText(-v.value)
  ELSE NatToText(v.value)

\* Buffer.toString(): UTF-8 decoding of one chunk, on its own.  A byte below
\* 128 is an ASCII character; a lead byte of a two-byte sequence followed by
\* a continuation byte is one character; a lead byte at the end of the chunk,
\* or a continuation byte with no lead byte, decodes to U+FFFD.
AsciiChar(b) ==
  CASE b = 10 -> NL
    [] b = 97 -> "a"
    [] b = 98 -> "b"
    [] OTHER -> "?"

IsLead2(b) == b >= 194 /\ b <= 223
IsCont(b) == b >= 128 /\ b <= 191

TwoByteChar(b1, b2) ==
  IF (b1 - 192) * 64 + (b2 - 128) = 233 THEN "U+00E9" ELSE "U+????"

RECURSIVE toString(_)
toString(data) ==
  IF data = <<>> THEN <<>>
  ELSE IF Head(data) < 128 THEN <<AsciiChar(Head(data))>> \o toString(Tail(data))
  ELSE IF IsLead2(Head(data)) /\ Len(data) >= 2 /\ IsCont(data[2])
    THEN <<TwoByteChar(data[1], data[2])>> \o toString(Tail(Tail(data)))
  ELSE <<ReplacementChar>> \o toString(Tail(data))

\* -------------------------------------------------------- executable locator
HomeCargo == "~/.cargo/bin/cargo"

commonLocations ==
  << HomeCargo,
     "~/.rustup/toolchains/stable-x86_64-apple-darwin/bin/cargo",
     "~/.rustup/toolchains/stable-x86_64-unknown-linux-gnu/bin/cargo",
     "~/.rustup/toolchains/stable-x86_64-pc-windows-msvc/bin/cargo.exe",
     "/usr/local/bin/cargo",
     "/usr/bin/cargo",
     "C:\\Program Files\\Rust\\bin\\cargo.exe",
     "C:\\Rust\\bin\\cargo.exe" >>

\* existsSync(p), on a file system whose existing paths are `files`.
existsSync(p, files) == p \in files

RECURSIVE FirstExisting_EmptyFallback(_, _)
FirstExisting_EmptyFallback(locations, files) ==
  IF locations = <<>> THEN ""
  ELSE IF existsSync(Head(locations), files) THEN Head(locations)
  ELSE FirstExisting_EmptyFallback(Tail(locations), files)

RECURSIVE FirstExisting_LastMatch(_, _)
FirstExisting_LastMatch(locations, files) ==
  IF locations = <<>> THEN "cargo"
  ELSE LET later == FirstExisting_LastMatch(Tail(locations), files)
       IN  IF later = "cargo" /\ existsSync(Head(locations), files)
           THEN Head(locations) ELSE later

RECURSIVE FirstExisting(_, _)
FirstExisting(locations, files) ==
  IF locations = <<>> THEN "cargo"
  ELSE IF existsSync(Head(locations), files) THEN Head(locations)
  ELSE FirstExisting(Tail(locations), files)

findCargoExecutable_LocationsFirst(cargoPath, files) ==
  IF FirstExisting(commonLocations, files) # "cargo"
  THEN FirstExisting(commonLocations, files)
  ELSE IF TruthyStr(cargoPath) /\ existsSync(cargoPath[1], files) THEN cargoPath[1]
  ELSE "cargo"

findCargoExecutable_ThrowIfMissing(cargoPath, files) ==
  IF TruthyStr(cargoPath) /\ existsSync(cargoPath[1], files) THEN cargoPath[1]
  ELSE IF FirstExisting(commonLocations, files) = "cargo"
  THEN "Error: cargo not found"
  ELSE FirstExisting(commonLocations, files)

\* cargoPath is process.env.CARGO_PATH: <<>> when unset, <<s>> when set to s.
findCargoExecutable(cargoPath, files) ==
  IF TruthyStr(cargoPath) /\ existsSync(cargoPath[1], files) THEN cargoPath[1]
  ELSE FirstExisting(commonLocations, files)

\* ------------------------------------------------------------ command runner
FullArgs_CommandLast(command, args) == args \o <<command>>

\* const fullArgs = [command, ...args]
FullArgs(command, args) == <<command>> \o args

Spawn_Twice(log, file, argv, cwd) ==
  Append(Append(log, [file |-> file, args |-> argv, cwd |-> cwd]),
         [file |-> file, args |-> argv, cwd |-> cwd])

\* spawn(cargoPath, fullArgs, { cwd: path }), recorded in the log of the
\* subprocesses the invocation started.
Spawn(log, file, argv, cwd) ==
  Append(log, [file |-> file, args |-> argv, cwd |-> cwd])

Closure_Shared(i) == 1

\* `let stdout = ''; let stderr = ''` are locals of the promise executor:
\* every invocation has its own pair, the pair of invocation i.
Closure(i) == i

OnStdoutData_Prepend(out, err, data) == [out |-> toString(data) \o out, err |-> err]

\* process.stdout.on('data', (data) => { stdout += data.toString(); })
OnStdoutData(out, err, data) == [out |-> out \o toString(data), err |-> err]

OnStderrData_IntoStdout(out, err, data) == [out |-> out \o toString(data), err |-> err]

\* process.stderr.on('data', (data) => { stderr += data.toString(); })
OnStderrData(out, err, data) == [out |-> out, err |-> err \o toString(data)]

OrZero_Identity(exitCode) == exitCode

OrZero_Boolean(exitCode) == IF JsFalsy(exitCode) THEN JsNum(0) ELSE JsNum(1)

\* exitCode || 0
OrZero(exitCode) == IF JsFalsy(exitCode) THEN JsNum(0) ELSE exitCode

Resolve_Overwrite(settled, value) == <<value>>

\* resolve(value): a promise settles once; a later call changes nothing.
\* `settled` is <<>> for a pending promise, <<v>> for one resolved with v.
Resolve(settled, value) == IF settled = <<>> THEN <<value>> ELSE settled

CommandResultOf_NoStderr(out, err, exitCode) ==
  [stdout |-> out, stderr |-> <<>>, exitCode |-> OrZero(exitCode)]

\* The object handed to resolve() by the 'close' listener.
CommandResultOf(out, err, exitCode) ==
  [stdout |-> out, stderr |-> err, exitCode |-> OrZero(exitCode)]

\* ---------------------------------------------------------- result formatter
formatCommandResult_StderrOnFailure(result) ==
  LET o1 == IF result.stdout # <<>>
            THEN StdoutLabel \o result.stdout \o <<NL>> ELSE <<>>
      o2 == IF ~JsFalsy(result.exitCode)
            THEN o1 \o StderrLabel \o result.stderr \o <<NL>> ELSE o1
  IN  o2 \o ExitCodeLabel \o TemplateText(result.exitCode)

formatCommandResult_TrailingNewline(result) ==
  LET o1 == IF result.stdout # <<>>
            THEN StdoutLabel \o result.stdout \o <<NL>> ELSE <<>>
      o2 == IF result.stderr # <<>>
            THEN o1 \o StderrLabel \o result.stderr \o <<NL>> ELSE o1
  IN  o2 \o ExitCodeLabel \o TemplateText(result.exitCode) \o <<NL>>

formatCommandResult_StderrFirst(result) ==
  LET o1 == IF result.stderr # <<>>
            THEN StderrLabel \o result.stderr \o <<NL>> ELSE <<>>
      o2 == IF result.stdout # <<>>
            THEN o1 \o StdoutLabel \o result.stdout \o <<NL>> ELSE o1
  IN  o2 \o ExitCodeLabel \o TemplateText(result.exitCode)

\* A string is truthy when it is not empty.
formatCommandResult(result) ==
  LET o1 == IF result.stdout # <<>>
            THEN StdoutLabel \o result.stdout \o <<NL>> ELSE <<>>
      o2 == IF result.stderr # <<>>
            THEN o1 \o StderrLabel \o result.stderr \o <<NL>> ELSE o1
  IN  o2 \o ExitCodeLabel \o TemplateText(result.exitCode)

\* ------------------------------------------------------------- tool handlers
\* getCommonArgs({ release, verbose })
getCommonArgs(release, verbose) ==
  (IF release THEN <<"--release">> ELSE <<>>)
    \o (IF verbose THEN <<"--verbose">> ELSE <<>>)

\* Array.prototype.join: the elements, separated by sep, as one string.
RECURSIVE Join(_, _)
Join(list, sep) ==
  IF list = <<>> THEN ""
  ELSE IF Len(list) = 1 THEN list[1]
  ELSE list[1] \o sep \o Join(Tail(list), sep)

BuildArgs_FeaturesBeforeTarget(release, verbose, target, features) ==
  LET a0 == getCommonArgs(release, verbose)
      a1 == IF features # <<>> /\ Len(features[1]) > 0
            THEN a0 \o <<"--features", Join(features[1], ",")>>
            ELSE a0
  IN  IF TruthyStr(target) THEN a1 \o <<"--target", target[1]>> ELSE a1

\* build: target is an optional string, features an optional array.
BuildArgs(release, verbose, target, features) ==
  LET a0 == getCommonArgs(release, verbose)
      a1 == IF TruthyStr(target) THEN a0 \o <<"--target", target[1]>> ELSE a0
  IN  IF features # <<>> /\ Len(features[1]) > 0
      THEN a1 \o <<"--features", Join(features[1], ",")>>
      ELSE a1

RunArgs_AlwaysSeparator(release, verbose, args) ==
  getCommonArgs(release, verbose) \o <<"--">> \o args

\* run: args are the arguments of the binary.
RunArgs(release, verbose, args) ==
  LET a0 == getCommonArgs(release, verbose)
  IN  IF Len(args) > 0 THEN a0 \o <<"--">> \o args ELSE a0

\* test: testName is an optional string.
TestArgs(release, verbose, testName, noCapture) ==
  LET a0 == getCommonArgs(release, verbose)
      a1 == IF TruthyStr(testName) THEN Append(a0, testName[1]) ELSE a0
  IN  IF noCapture THEN Append(a1, "--nocapture") ELSE a1

CheckArgs(release, verbose) == getCommonArgs(release, verbose)

FmtArgs(check) == IF check THEN <<"--check">> ELSE <<>>

ClippyArgs(release, verbose, fix) ==
  LET a0 == getCommonArgs(release, verbose)
  IN  IF fix THEN Append(a0, "--fix") ELSE a0

\* add: const args = [...dependencies]; if (dev) args.unshift('--dev')
AddArgs(dependencies, dev) ==
  IF dev THEN <<"--dev">> \o dependencies ELSE dependencies

\* ------------------------------------------------------------------- state
VARIABLES
  cargoPathEnv,  \* process.env.CARGO_PATH: <<>> unset, <<s>> set to s
  fs,            \* the paths that exist on disk
  alive,         \* the server process is running
  promise,       \* per slot: "none", "pending", "resolved", "rejected"
  child,         \* per slot: "none", "running", "failing", "closed"
  stdout,        \* per closure: the stdout buffer
  stderr,        \* per closure: the stderr buffer
  result,        \* per slot: <<>> or <<the Command Result resolved>>
  request,       \* per slot: <<>> or <<the tool request being handled>>
  response,      \* per slot: <<>> or <<the text of the tool response>>
  invoked,       \* per slot: the runCargoCommand calls made for the call
  spawned,       \* per slot: the subprocesses spawned for the call
  arrived,       \* per slot: the data events delivered, <<stream, chunk>>
  closeCode,     \* per slot: <<>> or <<the code the close event carried>>
  fmtIn,         \* <<>> or <<a Command Result handed to the formatter>>
  fmtOut,        \* <<>> or <<the string the formatter returned>>
  located        \* <<>> or <<what findCargoExecutable returned>>

envVars == <<cargoPathEnv, fs>>
fmtVars == <<fmtIn, fmtOut>>
locVars == <<located>>
callVars == <<alive, promise, child, stdout, stderr, result, request, response,
              invoked, spawned, arrived, closeCode>>
vars == <<envVars, callVars, fmtVars, locVars>>

\* ------------------------------------------------------------------ inputs
OverridePath == "/opt/rust/bin/cargo"
ProjectDir == "/proj"

\* What spawn can do: start the subprocess; fail to start it and report so
\* by an 'error' event on the child; or throw.
LaunchOutcomes == {"ok", "error", "throws"}

\* The chunks a subprocess writes: "a" followed by a two-byte character, and
\* the lead byte of such a character alone (the chunk ends inside it).
Chunks == {<<97, 195, 169>>, <<195>>}
Streams == {"stdout", "stderr"}

\* What a close event carries: null (killed by a signal) or the exit code.
CloseCodes == {JsNull, JsNum(0), JsNum(101)}

RunnerInputs ==
  { [command |-> "check", args |-> <<>>],
    [command |-> "build", args |-> <<"--release", "--verbose">>] }

\* The data events delivered so far to the invocations in flight.
RECURSIVE SumLen(_, _)
SumLen(f, S) ==
  IF S = {} THEN 0
  ELSE LET i == CHOOSE j \in S : TRUE IN Len(f[i]) + SumLen(f, S \ {i})

DataCount == SumLen(arrived, Calls)

\* ------------------------------------------------------------------- Init
InitCalls ==
  /\ alive = TRUE
  /\ promise = [i \in Calls |-> "none"]
  /\ child = [i \in Calls |-> "none"]
  /\ stdout = [i \in Calls |-> <<>>]
  /\ stderr = [i \in Calls |-> <<>>]
  /\ result = [i \in Calls |-> <<>>]
  /\ request = [i \in Calls |-> <<>>]
  /\ response = [i \in Calls |-> <<>>]
  /\ invoked = [i \in Calls |-> <<>>]
  /\ spawned = [i \in Calls |-> <<>>]
  /\ arrived = [i \in Calls |-> <<>>]
  /\ closeCode = [i \in Calls |-> <<>>]

InitEnv ==
  /\ cargoPathEnv \in {<<>>, <<OverridePath>>}
  /\ fs \in {{}, {OverridePath, "/usr/bin/cargo"}}

Init ==
  /\ InitEnv
  /\ InitCalls
  /\ fmtIn = <<>>
  /\ fmtOut = <<>>
  /\ located = <<>>

\* The runner alone starts where no override is set and cargo is installed
\* in one conventional location.
InitRunner ==
  /\ cargoPathEnv = <<>>
  /\ fs = {"/usr/bin/cargo"}
  /\ InitCalls
  /\ fmtIn = <<>>
  /\ fmtOut = <<>>
  /\ located = <<>>

\* ---------------------------------------------------------------- actions
\* Invocations are numbered in the order they are made: the next one takes
\* the first slot not yet used.
Free(i) ==
  /\ alive
  /\ promise[i] = "none"
  /\ \A j \in Calls : j < i => promise[j] # "none"

RunCargoCommand_Cached(i, command, args, path) ==
  \E launch \in LaunchOutcomes :
    LET fullArgs == FullArgs(command, args)
        cargoPath == IF i > 1 /\ spawned[i - 1] # <<>>
                     THEN spawned[i - 1][1].file
                     ELSE findCargoExecutable(cargoPathEnv, fs)
    IN  /\ invoked' = [invoked EXCEPT ![i] =
                         <<[command |-> command, args |-> args, path |-> path]>>]
        /\ spawned' = [spawned EXCEPT ![i] = Spawn(<<>>, cargoPath, fullArgs, path)]
        /\ promise' = [promise EXCEPT ![i] =
                         IF launch = "throws" THEN "rejected" ELSE "pending"]
        /\ child' = [child EXCEPT ![i] =
                       CASE launch = "ok" -> "running"
                         [] launch = "error" -> "failing"
                         [] OTHER -> "none"]
        /\ stdout' = [stdout EXCEPT ![Closure(i)] = <<>>]
        /\ stderr' = [stderr EXCEPT ![Closure(i)] = <<>>]
        /\ result' = [result EXCEPT ![i] = <<>>]
        /\ arrived' = [arrived EXCEPT ![i] = <<>>]
        /\ closeCode' = [closeCode EXCEPT ![i] = <<>>]
        /\ UNCHANGED <<alive, envVars, fmtVars, locVars>>

\* runCargoCommand(command, args, path), up to the return of the promise:
\* the executor resolves the executable, spawns and registers the listeners.
\* When spawn throws, the executor's exception rejects the promise.
RunCargoCommand(i, command, args, path) ==
  \E launch \in LaunchOutcomes :
    LET fullArgs == FullArgs(command, args)
        cargoPath == findCargoExecutable(cargoPathEnv, fs)
    IN  /\ invoked' = [invoked EXCEPT ![i] =
                         <<[command |-> command, args |-> args, path |-> path]>>]
        /\ spawned' = [spawned EXCEPT ![i] = Spawn(<<>>, cargoPath, fullArgs, path)]
        /\ promise' = [promise EXCEPT ![i] =
                         IF launch = "throws" THEN "rejected" ELSE "pending"]
        /\ child' = [child EXCEPT ![i] =
                       CASE launch = "ok" -> "running"
                         [] launch = "error" -> "failing"
                         [] OTHER -> "none"]
        /\ stdout' = [stdout EXCEPT ![Closure(i)] = <<>>]
        /\ stderr' = [stderr EXCEPT ![Closure(i)] = <<>>]
        /\ result' = [result EXCEPT ![i] = <<>>]
        /\ arrived' = [arrived EXCEPT ![i] = <<>>]
        /\ closeCode' = [closeCode EXCEPT ![i] = <<>>]
        /\ UNCHANGED <<alive, envVars, fmtVars, locVars>>

\* A caller other than a tool handler awaits runCargoCommand.
DirectCall(i) ==
  /\ Free(i)
  /\ \E in \in RunnerInputs : RunCargoCommand(i, in.command, in.args, ProjectDir)
  /\ request' = [request EXCEPT ![i] = <<>>]
  /\ response' = [response EXCEPT ![i] = <<>>]

\* A tool handler, up to its `await runCargoCommand(...)`.
Handle(i, req, command, args) ==
  /\ RunCargoCommand(i, command, args, req.path)
  /\ request' = [request EXCEPT ![i] = <<req>>]
  /\ response' = [response EXCEPT ![i] = <<>>]

\* A 'data' event of the subprocess of invocation i, on stream s.
Data(i, s, data) ==
  /\ alive
  /\ child[i] = "running"
  /\ DataCount < MaxData
  /\ LET c == Closure(i)
         new == IF s = "stdout" THEN OnStdoutData(stdout[c], stderr[c], data)
                ELSE OnStderrData(stdout[c], stderr[c], data)
     IN  /\ stdout' = [stdout EXCEPT ![c] = new.out]
         /\ stderr' = [stderr EXCEPT ![c] = new.err]
  /\ arrived' = [arrived EXCEPT ![i] = Append(@, <<s, data>>)]
  /\ UNCHANGED <<alive, promise, child, result, request, response, invoked,
                 spawned, closeCode, envVars, fmtVars, locVars>>

Close_RejectOnFailure(i, exitCode) ==
  /\ alive
  /\ child[i] = "running"
  /\ LET r == CommandResultOf(stdout[Closure(i)], stderr[Closure(i)], exitCode)
         failed == ~JsFalsy(exitCode)
     IN  /\ result' = [result EXCEPT ![i] = IF failed THEN <<>> ELSE <<r>>]
         /\ response' = [response EXCEPT ![i] =
                           IF request[i] # <<>> /\ ~failed
                           THEN <<formatCommandResult(r)>> ELSE <<>>]
         /\ promise' = [promise EXCEPT ![i] =
                          IF failed THEN "rejected" ELSE "resolved"]
  /\ child' = [child EXCEPT ![i] = "closed"]
  /\ closeCode' = [closeCode EXCEPT ![i] = <<exitCode>>]
  /\ UNCHANGED <<alive, stdout, stderr, request, invoked, spawned, arrived,
                 envVars, fmtVars, locVars>>

\* The 'close' event of the subprocess of invocation i: the listener
\* resolves the promise, and the handler awaiting it, if any, formats the
\* result and returns it as the text of its response.
Close(i, exitCode) ==
  /\ alive
  /\ child[i] = "running"
  /\ LET r == CommandResultOf(stdout[Closure(i)], stderr[Closure(i)], exitCode)
     IN  /\ result' = [result EXCEPT ![i] = Resolve(@, r)]
         /\ response' = [response EXCEPT ![i] =
                           IF request[i] # <<>> THEN <<formatCommandResult(r)>>
                           ELSE <<>>]
  /\ promise' = [promise EXCEPT ![i] = "resolved"]
  /\ child' = [child EXCEPT ![i] = "closed"]
  /\ closeCode' = [closeCode EXCEPT ![i] = <<exitCode>>]
  /\ UNCHANGED <<alive, stdout, stderr, request, invoked, spawned, arrived,
                 envVars, fmtVars, locVars>>

LaunchError_Normalized(i) ==
  /\ alive
  /\ child[i] = "failing"
  /\ promise[i] = "pending"
  /\ result' = [result EXCEPT ![i] =
                  <<[stdout |-> <<>>, stderr |-> <<>>, exitCode |-> JsNum(1)]>>]
  /\ promise' = [promise EXCEPT ![i] = "resolved"]
  /\ UNCHANGED <<alive, child, stdout, stderr, request, response, invoked,
                 spawned, arrived, closeCode, envVars, fmtVars, locVars>>

\* The 'error' event of a subprocess that could not be started: no listener
\* is registered for it, so the event is thrown and ends the server process.
LaunchError(i) ==
  /\ alive
  /\ child[i] = "failing"
  /\ alive' = FALSE
  /\ UNCHANGED <<promise, child, stdout, stderr, result, request, response,
                 invoked, spawned, arrived, closeCode, envVars, fmtVars, locVars>>

\* ---------------------------------------------------------- the runner alone
Call == \E i \in Calls : DirectCall(i)
DataEvent == \E i \in Calls, s \in Streams, data \in Chunks : Data(i, s, data)
CloseEvent == \E i \in Calls, exitCode \in CloseCodes : Close(i, exitCode)
ErrorEvent == \E i \in Calls : LaunchError(i)

NextRunner == Call \/ DataEvent \/ CloseEvent \/ ErrorEvent

SpecRunner == InitRunner /\ [][NextRunner]_vars

\* ------------------------------------------------------- the tool handlers
\* The parameters a client may send, as the schemas admit them: an optional
\* string may be absent or empty, an optional array absent or empty.
Targets == {<<>>, <<"">>, <<"wasm32-wasi">>}
FeatureLists == {<<>>, <<<<>>>>, <<<<"f1">>>>, <<<<"f1", "f2">>>>, <<<<"f2", "f1">>>>}
BinaryArgs == {<<>>, <<"x">>, <<"x", "y">>, <<"y", "x">>}
TestNames == {<<>>, <<"">>, <<"my_test">>}
DependencyLists == {<<>>, <<"serde">>, <<"serde", "tokio">>, <<"tokio", "serde">>}

BuildTool(i) ==
  /\ Free(i)
  /\ \E release \in BOOLEAN, verbose \in BOOLEAN, target \in Targets,
        features \in FeatureLists :
      Handle(i, [tool |-> "build", path |-> ProjectDir, release |-> release,
                 verbose |-> verbose, target |-> target, features |-> features],
             "build", BuildArgs(release, verbose, target, features))

RunTool(i) ==
  /\ Free(i)
  /\ \E release \in BOOLEAN, verbose \in BOOLEAN, args \in BinaryArgs :
      Handle(i, [tool |-> "run", path |-> ProjectDir, release |-> release,
                 verbose |-> verbose, args |-> args],
             "run", RunArgs(release, verbose, args))

TestTool(i) ==
  /\ Free(i)
  /\ \E release \in BOOLEAN, verbose \in BOOLEAN, testName \in TestNames,
        noCapture \in BOOLEAN :
      Handle(i, [tool |-> "test", path |-> ProjectDir, release |-> release,
                 verbose |-> verbose, testName |-> testName,
                 noCapture |-> noCapture],
             "test", TestArgs(release, verbose, testName, noCapture))

CheckTool(i) ==
  /\ Free(i)
  /\ \E release \in BOOLEAN, verbose \in BOOLEAN :
      Handle(i, [tool |-> "check", path |-> ProjectDir, release |-> release,
                 verbose |-> verbose],
             "check", CheckArgs(release, verbose))

FmtTool(i) ==
  /\ Free(i)
  /\ \E check \in BOOLEAN :
      Handle(i, [tool |-> "fmt", path |-> ProjectDir, check |-> check],
             "fmt", FmtArgs(check))

ClippyTool(i) ==
  /\ Free(i)
  /\ \E release \in BOOLEAN, verbose \in BOOLEAN, fix \in BOOLEAN :
      Handle(i, [tool |-> "clippy", path |-> ProjectDir, release |-> release,
                 verbose |-> verbose, fix |-> fix],
             "clippy", ClippyArgs(release, verbose, fix))

AddTool(i) ==
  /\ Free(i)
  /\ \E dependencies \in DependencyLists, dev \in BOOLEAN :
      Handle(i, [tool |-> "add", path |-> ProjectDir,
                 dependencies |-> dependencies, dev |-> dev],
             "add", AddArgs(dependencies, dev))

\* One tool call, with every parameter the schemas admit.
SingleCall == {i \in Calls : \A j \in Calls : i <= j}

Build == \E i \in SingleCall : BuildTool(i)
Run == \E i \in SingleCall : RunTool(i)
Test == \E i \in SingleCall : TestTool(i)
Check == \E i \in SingleCall : CheckTool(i)
Fmt == \E i \in SingleCall : FmtTool(i)
Clippy == \E i \in SingleCall : ClippyTool(i)
Add == \E i \in SingleCall : AddTool(i)

NextTools ==
  \/ Build \/ Run \/ Test \/ Check \/ Fmt \/ Clippy \/ Add
  \/ DataEvent \/ CloseEvent \/ ErrorEvent

SpecTools == Init /\ [][NextTools]_vars

\* ----------------------------------------------------- the formatter alone
\* Sample stream texts: up to MaxPieces pieces, among them a line break, a
\* line that reads like an exit-code line and a line that reads like a label.
FormatPieces == {<<"a">>, <<NL>>, ExitCodeLabel \o <<"7">>, StderrLabel}

RECURSIVE SampleTexts(_)
SampleTexts(n) ==
  IF n = 0 THEN {<<>>}
  ELSE LET shorter == SampleTexts(n - 1)
       IN  shorter \cup {t \o p : t \in shorter, p \in FormatPieces}

FormatExitCodes == {JsNum(0), JsNum(1), JsNum(101)}

FormatInputs ==
  [stdout : SampleTexts(MaxPieces), stderr : SampleTexts(MaxPieces),
   exitCode : FormatExitCodes]

InitFormat ==
  /\ cargoPathEnv = <<>>
  /\ fs = {}
  /\ InitCalls
  /\ fmtIn \in {<<r>> : r \in FormatInputs}
  /\ fmtOut = <<>>
  /\ located = <<>>

Format ==
  /\ fmtOut = <<>>
  /\ fmtOut' = <<formatCommandResult(fmtIn[1])>>
  /\ UNCHANGED <<fmtIn, envVars, callVars, locVars>>

NextFormat == Format

SpecFormat == InitFormat /\ [][NextFormat]_vars

\* ------------------------------------------------------- the locator alone
\* The override variable is unset, empty, or names a path outside or inside
\* the conventional locations; any of these paths may exist or not.
LocatorOverrides == {<<>>, <<"">>, <<OverridePath>>, <<"/usr/bin/cargo">>}
LocatorPaths == {OverridePath} \cup {commonLocations[k] : k \in DOMAIN commonLocations}

InitLocator ==
  /\ cargoPathEnv \in LocatorOverrides
  /\ fs \in SUBSET LocatorPaths
  /\ InitCalls
  /\ fmtIn = <<>>
  /\ fmtOut = <<>>
  /\ located = <<>>

Locate ==
  /\ located = <<>>
  /\ located' = <<findCargoExecutable(cargoPathEnv, fs)>>
  /\ UNCHANGED <<envVars, callVars, fmtVars>>

NextLocator == Locate

SpecLocator == InitLocator /\ [][NextLocator]_vars

\* ------------------------------------------- calls in a changing environment
\* process.env.CARGO_PATH and the disk are read by findCargoExecutable each
\* time it is called; between two calls the variable may be set or unset and
\* an executable may be installed or removed.
EnvOverrides == {<<>>, <<OverridePath>>}
EnvPaths == {OverridePath, "/usr/bin/cargo"}

InitEnvCalls ==
  /\ cargoPathEnv \in EnvOverrides
  /\ fs \in SUBSET EnvPaths
  /\ InitCalls
  /\ fmtIn = <<>>
  /\ fmtOut = <<>>
  /\ located = <<>>

\* process.env.CARGO_PATH is given another value, or deleted.
SetCargoPath ==
  /\ alive
  /\ \E v \in EnvOverrides \ {cargoPathEnv} : cargoPathEnv' = v
  /\ UNCHANGED <<fs, callVars, fmtVars, locVars>>

\* A file comes to exist at p.
Install ==
  /\ alive
  /\ \E p \in EnvPaths \ fs : fs' = fs \cup {p}
  /\ UNCHANGED <<cargoPathEnv, callVars, fmtVars, locVars>>

\* The file at p is removed.
Uninstall ==
  /\ alive
  /\ \E p \in fs : fs' = fs \ {p}
  /\ UNCHANGED <<cargoPathEnv, callVars, fmtVars, locVars>>

NextEnvCalls ==
  \/ Call \/ CloseEvent \/ ErrorEvent
  \/ SetCargoPath \/ Install \/ Uninstall

SpecEnvCalls == InitEnvCalls /\ [][NextEnvCalls]_vars

\* ------------------------------------------------- events after the close
\* The listeners stay registered after the close event.  Node delivers no
\* further 'data' event and no second 'close' event once 'close' has been
\* emitted; this specification admits them all the same, for one
\* invocation, and lets the listeners do what their code does.
LateData(i, s, data) ==
  /\ alive
  /\ child[i] = "closed"
  /\ DataCount < MaxData
  /\ LET c == Closure(i)
         new == IF s = "stdout" THEN OnStdoutData(stdout[c], stderr[c], data)
                ELSE OnStderrData(stdout[c], stderr[c], data)
     IN  /\ stdout' = [stdout EXCEPT ![c] = new.out]
         /\ stderr' = [stderr EXCEPT ![c] = new.err]
  /\ arrived' = [arrived EXCEPT ![i] = Append(@, <<s, data>>)]
  /\ UNCHANGED <<alive, promise, child, result, request, response, invoked,
                 spawned, closeCode, envVars, fmtVars, locVars>>

LateClose(i, exitCode) ==
  /\ alive
  /\ child[i] = "closed"
  /\ LET r == CommandResultOf(stdout[Closure(i)], stderr[Closure(i)], exitCode)
     IN  result' = [result EXCEPT ![i] = Resolve(@, r)]
  /\ closeCode' = [closeCode EXCEPT ![i] = <<exitCode>>]
  /\ UNCHANGED <<alive, promise, child, stdout, stderr, request, response,
                 invoked, spawned, arrived, envVars, fmtVars, locVars>>

LateCall == \E i \in SingleCall : DirectCall(i)
LateDataEvent ==
  \E i \in Calls, s \in Streams, data \in Chunks : LateData(i, s, data)
LateCloseEvent == \E i \in Calls, exitCode \in CloseCodes : LateClose(i, exitCode)

NextLate ==
  \/ LateCall \/ DataEvent \/ CloseEvent \/ ErrorEvent
  \/ LateDataEvent \/ LateCloseEvent

SpecLate == InitRunner /\ [][NextLate]_vars

\* ======================================================================
\* Properties
\* ======================================================================
\* The chunks of stream s among the data events of a log, in arrival order.
RECURSIVE Project(_, _)
Project(log, s) ==
  IF log = <<>> THEN <<>>
  ELSE IF Head(log)[1] = s THEN <<Head(log)[2]>> \o Project(Tail(log), s)
  ELSE Project(Tail(log), s)

\* The texts of a sequence of chunks, one after the other.
RECURSIVE ConcatText(_)
ConcatText(chunks) ==
  IF chunks = <<>> THEN <<>>
  ELSE toString(Head(chunks)) \o ConcatText(Tail(chunks))

HasPrefix(t, p) == Len(t) >= Len(p) /\ SubSeq(t, 1, Len(p)) = p
Drop(t, n) == SubSeq(t, n + 1, Len(t))

\* The lines of a text: its parts between line breaks.
RECURSIVE SplitLines(_)
SplitLines(t) ==
  IF \A k \in DOMAIN t : t[k] # NL THEN <<t>>
  ELSE LET k == CHOOSE n \in DOMAIN t :
                  t[n] = NL /\ \A m \in DOMAIN t : m < n => t[m] # NL
       IN  <<SubSeq(t, 1, k - 1)>> \o SplitLines(Drop(t, k))

DigitChars == {Digits[k] : k \in DOMAIN Digits}

\* A line of the form `Exit code: <n>`, n a decimal integer.
IsExitCodeLine(line) ==
  /\ HasPrefix(line, ExitCodeLabel)
  /\ LET n == Drop(line, Len(ExitCodeLabel))
         d == IF n # <<>> /\ Head(n) = "-" THEN Tail(n) ELSE n
     IN  d # <<>> /\ \A k \in DOMAIN d : d[k] \in DigitChars

ExitCodeLines(t) ==
  LET lines == SplitLines(t)
  IN  Cardinality({k \in DOMAIN lines : IsExitCodeLine(lines[k])})

LastLine(t) == LET lines == SplitLines(t) IN lines[Len(lines)]

\* ---------------------------------------------------------------------- C1
\* C1: every Command Result that runCargoCommand resolves has an integer as
\* its exitCode, and when the close event carried null (the subprocess was
\* killed by a signal) that integer is 0.
C1_ExitCodeDefined ==
  \A i \in Calls :
    result[i] # <<>> =>
      /\ result[i][1].exitCode.type = "number"
      /\ result[i][1].exitCode.value \in Int
      /\ (closeCode[i] = <<JsNull>> => result[i][1].exitCode = JsNum(0))

\* An invocation whose subprocess was killed by a signal has resolved.
C1_Witness ==
  \E i \in Calls : closeCode[i] = <<JsNull>> /\ result[i] # <<>>

\* ---------------------------------------------------------------------- C2
\* C2: when the close event carries an integer exit code c, zero or not, the
\* Command Result has exitCode = c.
C2_ExitCodeReported ==
  \A i \in Calls :
    (closeCode[i] # <<>> /\ closeCode[i][1].type = "number") =>
      /\ result[i] # <<>>
      /\ result[i][1].exitCode = closeCode[i][1]

\* One invocation has exited with code 0 and another with a nonzero code.
C2_Witness ==
  \E i, j \in Calls :
    /\ closeCode[i] = <<JsNum(0)>> /\ result[i] # <<>>
    /\ closeCode[j] = <<JsNum(101)>> /\ result[j] # <<>>

\* ---------------------------------------------------------------------- C3
\* C3: no Command Result exists before the close event; while the subprocess
\* runs the promise stays pending; and the result delivered at close holds
\* the text of every stdout and stderr chunk received before the close,
\* whatever the way the subprocess ended.
C3_ResultOnlyAtClose ==
  \A i \in Calls :
    /\ child[i] = "running" => (promise[i] = "pending" /\ result[i] = <<>>)
    /\ promise[i] = "resolved" => child[i] = "closed"
    /\ result[i] # <<>> =>
         /\ child[i] = "closed"
         /\ closeCode[i] # <<>>
         /\ result[i][1].stdout = ConcatText(Project(arrived[i], "stdout"))
         /\ result[i][1].stderr = ConcatText(Project(arrived[i], "stderr"))

\* A subprocess killed by a signal after it wrote to both streams.
C3_Witness ==
  \E i \in Calls :
    /\ closeCode[i] = <<JsNull>>
    /\ result[i] # <<>>
    /\ Project(arrived[i], "stdout") # <<>>
    /\ Project(arrived[i], "stderr") # <<>>

\* ---------------------------------------------------------------------- C4
\* The text of the chunks before the k-th, in characters.
Offset(chunks, k) == Len(ConcatText(SubSeq(chunks, 1, k - 1)))

\* The buffer holds the text of each chunk at the place its arrival order
\* gives it, and nothing else.
InArrivalOrder(buffer, chunks) ==
  /\ Len(buffer) = Offset(chunks, Len(chunks) + 1)
  /\ \A k \in DOMAIN chunks :
       SubSeq(buffer, Offset(chunks, k) + 1, Offset(chunks, k + 1))
         = toString(chunks[k])

\* C4: within one stream order is preserved: the stdout buffer of an
\* invocation is the texts of its stdout chunks in arrival order, an earlier
\* chunk before a later one, and likewise the stderr buffer.
C4_OrderWithinStream ==
  \A i \in Calls :
    child[i] \in {"running", "closed"} =>
      /\ InArrivalOrder(stdout[i], Project(arrived[i], "stdout"))
      /\ InArrivalOrder(stderr[i], Project(arrived[i], "stderr"))

\* Two different chunks have arrived on the same stream.
C4_Witness ==
  \E i \in Calls, s \in Streams :
    LET chunks == Project(arrived[i], s)
    IN  Len(chunks) = 2 /\ chunks[1] # chunks[2]

\* ---------------------------------------------------------------------- C5
\* C5: the streams are captured independently: the arrival of a stdout chunk
\* appends its text to the stdout buffer and leaves the stderr buffer as it
\* was, and the arrival of a stderr chunk does the converse.
C5_StreamsIndependent ==
  [][\A i \in Calls :
       Len(arrived'[i]) = Len(arrived[i]) + 1 =>
         LET ev == arrived'[i][Len(arrived'[i])]
         IN  IF ev[1] = "stdout"
             THEN /\ stdout'[i] = stdout[i] \o toString(ev[2])
                  /\ stderr'[i] = stderr[i]
             ELSE /\ stderr'[i] = stderr[i] \o toString(ev[2])
                  /\ stdout'[i] = stdout[i]]_vars

\* A stderr chunk has arrived before a stdout chunk.
C5_Witness ==
  \E i \in Calls :
    /\ Len(arrived[i]) = 2
    /\ arrived[i][1][1] = "stderr"
    /\ arrived[i][2][1] = "stdout"
    /\ stdout[i] # <<>>
    /\ stderr[i] # <<>>

\* ---------------------------------------------------------------------- C6
\* The Command Result of an invocation that runs alone and receives the data
\* events of log, then a close event carrying exitCode.
RECURSIVE Replay(_, _, _)
Replay(log, out, err) ==
  IF log = <<>> THEN [out |-> out, err |-> err]
  ELSE LET new == IF Head(log)[1] = "stdout"
                  THEN OnStdoutData(out, err, Head(log)[2])
                  ELSE OnStderrData(out, err, Head(log)[2])
       IN  Replay(Tail(log), new.out, new.err)

RunAlone(log, exitCode) ==
  LET b == Replay(log, <<>>, <<>>)
  IN  CommandResultOf(b.out, b.err, exitCode)

\* C6: invocations in flight together share no state: whatever the
\* interleaving of their events, the Command Result of each is the one it
\* would have were it the only invocation.
C6_InvocationsIsolated ==
  \A i \in Calls :
    result[i] # <<>> => result[i][1] = RunAlone(arrived[i], closeCode[i][1])

\* The second invocation started, received output and resolved while the
\* first, which has received output too, is still running.
C6_Witness ==
  \E i, j \in Calls :
    /\ i < j
    /\ child[i] = "running"
    /\ arrived[i] # <<>>
    /\ arrived[j] # <<>>
    /\ result[j] # <<>>

\* ---------------------------------------------------------------------- C7
\* C7: a tool call makes one runCargoCommand call and one spawn call, and no
\* outcome (nonzero exit code, signal, empty output) adds another.
C7_OneSpawnPerToolCall ==
  \A i \in Calls :
    request[i] # <<>> => (Len(invoked[i]) = 1 /\ Len(spawned[i]) = 1)

\* A tool call whose subprocess wrote nothing and exited with a nonzero code.
C7_Witness ==
  \E i \in Calls :
    /\ request[i] # <<>>
    /\ closeCode[i] = <<JsNum(101)>>
    /\ arrived[i] = <<>>
    /\ response[i] # <<>>

\* ---------------------------------------------------------------------- C8
\* C8: the argument vector given to spawn is the subcommand followed by the
\* arguments runCargoCommand was given, in their order; for the add tool
\* with dev set it is add, --dev, then the dependencies in the given order.
C8_ArgumentVector ==
  \A i \in Calls :
    \A k \in DOMAIN spawned[i] :
      LET argv == spawned[i][k].args
          call == invoked[i][1]
      IN  /\ Len(argv) = Len(call.args) + 1
          /\ argv[1] = call.command
          /\ \A n \in DOMAIN call.args : argv[n + 1] = call.args[n]
          /\ (request[i] # <<>> /\ request[i][1].tool = "add"
                /\ request[i][1].dev) =>
               argv = <<"add", "--dev">> \o request[i][1].dependencies

\* The add tool was called with dev set and two dependencies.
C8_Witness ==
  \E i \in Calls :
    /\ request[i] # <<>>
    /\ request[i][1].tool = "add"
    /\ request[i][1].dev
    /\ request[i][1].dependencies = <<"tokio", "serde">>
    /\ spawned[i] # <<>>

\* ---------------------------------------------------------------------- C9
\* What follows the STDOUT block, if the result has one, in the string.
AfterStdoutBlock(out, r) ==
  IF r.stdout # <<>>
  THEN Drop(out, Len(StdoutLabel) + Len(r.stdout) + 1)
  ELSE out

\* C9: the string begins with the STDOUT block exactly when the captured
\* stdout is not empty, and the STDERR block comes next exactly when the
\* captured stderr is not empty.
C9_BlockIffNonEmpty ==
  fmtOut # <<>> =>
    LET r == fmtIn[1]
        out == fmtOut[1]
    IN  /\ HasPrefix(out, StdoutLabel) <=> (r.stdout # <<>>)
        /\ HasPrefix(AfterStdoutBlock(out, r), StderrLabel) <=> (r.stderr # <<>>)

\* A result with empty stdout, non-empty stderr and exit code 0 was formatted.
C9_Witness ==
  /\ fmtOut # <<>>
  /\ fmtIn[1].stdout = <<>>
  /\ fmtIn[1].stderr # <<>>
  /\ fmtIn[1].exitCode = JsNum(0)

\* --------------------------------------------------------------------- C10
\* C10 as stated: the string has exactly one exit-code line, and it is the
\* last line.
C10_ExactlyOneExitCodeLine ==
  fmtOut # <<>> =>
    /\ ExitCodeLines(fmtOut[1]) = 1
    /\ IsExitCodeLine(LastLine(fmtOut[1]))

\* C10, amended: the last line of the string is the exit-code line of the
\* result's exit code; the stream texts are copied as they are, so the
\* string has one more exit-code line than the two captured texts have, and
\* exactly one when neither of them has such a line.
C10_LastLineIsExitCode ==
  fmtOut # <<>> =>
    LET r == fmtIn[1]
        out == fmtOut[1]
    IN  /\ LastLine(out) = ExitCodeLabel \o TemplateText(r.exitCode)
        /\ IsExitCodeLine(LastLine(out))
        /\ ExitCodeLines(out)
             = 1 + (IF r.stdout # <<>> THEN ExitCodeLines(r.stdout) ELSE 0)
                 + (IF r.stderr # <<>> THEN ExitCodeLines(r.stderr) ELSE 0)

\* A result whose stdout has a line that reads `Exit code: 7` was formatted.
C10_Witness ==
  /\ fmtOut # <<>>
  /\ ExitCodeLines(fmtIn[1].stdout) = 1
  /\ ExitCodeLines(fmtOut[1]) = 2

\* --------------------------------------------------------------------- C11
\* The length of the block of a stream text: label, text and line break, or
\* nothing when the text is empty.
BlockLen(label, text) == IF text # <<>> THEN Len(label) + Len(text) + 1 ELSE 0

\* At offset `at` of the string stands the block of a non-empty text: the
\* label, the text as it is, and a line break.
BlockAt(out, at, label, text) ==
  text # <<>> =>
    /\ SubSeq(out, at + 1, at + Len(label)) = label
    /\ SubSeq(out, at + Len(label) + 1, at + Len(label) + Len(text)) = text
    /\ out[at + BlockLen(label, text)] = NL

\* C11: the string is the STDOUT block when stdout is not empty, then the
\* STDERR block when stderr is not empty, then `Exit code: <exitCode>`, with
\* the stream texts copied as they are and nothing else.
C11_FixedLayout ==
  fmtOut # <<>> =>
    LET r == fmtIn[1]
        out == fmtOut[1]
        a == BlockLen(StdoutLabel, r.stdout)
        b == BlockLen(StderrLabel, r.stderr)
        n == TemplateText(r.exitCode)
    IN  /\ Len(out) = a + b + Len(ExitCodeLabel) + Len(n)
        /\ BlockAt(out, 0, StdoutLabel, r.stdout)
        /\ BlockAt(out, a, StderrLabel, r.stderr)
        /\ SubSeq(out, a + b + 1, a + b + Len(ExitCodeLabel)) = ExitCodeLabel
        /\ Drop(out, a + b + Len(ExitCodeLabel)) = n
        /\ r.exitCode.type = "number" => \A k \in DOMAIN n : n[k] \in DigitChars

\* A result with both stream texts non-empty, of several lines, and a
\* nonzero exit code was formatted.
C11_Witness ==
  /\ fmtOut # <<>>
  /\ Len(SplitLines(fmtIn[1].stdout)) > 1
  /\ fmtIn[1].stderr # <<>>
  /\ fmtIn[1].stdout # fmtIn[1].stderr
  /\ fmtIn[1].exitCode = JsNum(101)

\* --------------------------------------------------------------------- C12
\* The override variable names a path that exists.
OverrideUsable == TruthyStr(cargoPathEnv) /\ cargoPathEnv[1] \in fs

\* C12: when CARGO_PATH names an existing path, findCargoExecutable returns
\* that path as it is, whatever conventional locations exist.
C12_OverrideWins ==
  (located # <<>> /\ OverrideUsable) => located = <<cargoPathEnv[1]>>

\* The override names an existing path outside the conventional locations
\* while the first conventional location exists too.
C12_Witness ==
  /\ located # <<>>
  /\ cargoPathEnv = <<OverridePath>>
  /\ OverridePath \in fs
  /\ HomeCargo \in fs

\* --------------------------------------------------------------------- C13
NoneExists == \A k \in DOMAIN commonLocations : commonLocations[k] \notin fs

\* C13: with no override set and no conventional location on disk,
\* findCargoExecutable returns the bare name cargo.
C13_BareFallback ==
  (located # <<>> /\ cargoPathEnv = <<>> /\ NoneExists) => located = <<"cargo">>

\* No override, and the only file on disk is outside the conventional
\* locations.
C13_Witness ==
  /\ located # <<>>
  /\ cargoPathEnv = <<>>
  /\ fs = {OverridePath}

\* --------------------------------------------------------------------- C14
\* C14: an override that is unset, empty or names a missing path plays no
\* part: the result is the first conventional location that exists, a later
\* one only when all the earlier ones are absent, and cargo when none exists.
C14_PriorityOrder ==
  (located # <<>> /\ ~OverrideUsable) =>
    \/ /\ NoneExists
       /\ located = <<"cargo">>
    \/ \E k \in DOMAIN commonLocations :
         /\ located = <<commonLocations[k]>>
         /\ commonLocations[k] \in fs
         /\ \A j \in DOMAIN commonLocations : j < k => commonLocations[j] \notin fs

\* The override names a missing path, and of the conventional locations the
\* fifth and the sixth exist: the fifth was returned.
C14_Witness ==
  /\ located = <<"/usr/local/bin/cargo">>
  /\ cargoPathEnv = <<OverridePath>>
  /\ fs = {"/usr/local/bin/cargo", "/usr/bin/cargo"}

\* --------------------------------------------------------------------- C15
\* C15: for every override value and every set of existing paths
\* findCargoExecutable returns: either a path that exists, the override or a
\* conventional location, or the bare name cargo.
C15_LocatorReturns ==
  /\ located = <<>> => ENABLED Locate
  /\ located # <<>> =>
       \/ located = <<"cargo">>
       \/ /\ located[1] \in LocatorPaths
          /\ located[1] \in fs

\* The override is set to the empty string and nothing exists on disk.
C15_Witness ==
  /\ located = <<"cargo">>
  /\ cargoPathEnv = <<"">>
  /\ fs = {}

\* --------------------------------------------------------------------- C16
\* The close event of invocation i carried a nonzero exit code.
ExitedNonzero(i) ==
  /\ closeCode[i] # <<>>
  /\ closeCode[i][1].type = "number"
  /\ closeCode[i][1].value # 0

\* C16: a nonzero exit code is no error path: the promise is resolved with
\* a Command Result of the usual shape, and the handler returns a text that
\* ends with `Exit code: ` and the nonzero value, with the STDERR block when
\* stderr is not empty.
C16_NonzeroIsData ==
  \A i \in Calls :
    (request[i] # <<>> /\ ExitedNonzero(i)) =>
      /\ promise[i] = "resolved"
      /\ result[i] # <<>>
      /\ DOMAIN result[i][1] = {"stdout", "stderr", "exitCode"}
      /\ result[i][1].exitCode = closeCode[i][1]
      /\ response[i] # <<>>
      /\ LastLine(response[i][1])
           = ExitCodeLabel \o NatToText(closeCode[i][1].value)
      /\ result[i][1].stderr # <<>> =>
           HasPrefix(AfterStdoutBlock(response[i][1], result[i][1]),
                     StderrLabel \o result[i][1].stderr \o <<NL>>)

\* A tool call whose subprocess wrote to stderr and exited with code 101.
C16_Witness ==
  \E i \in Calls :
    /\ request[i] # <<>>
    /\ closeCode[i] = <<JsNum(101)>>
    /\ Project(arrived[i], "stderr") # <<>>
    /\ response[i] # <<>>

\* --------------------------------------------------------------------- C17
\* The text holds what the subprocess printed on both streams and the exit
\* code its close event carried.
TextOfOutcome(text, i) ==
  LET out == ConcatText(Project(arrived[i], "stdout"))
      err == ConcatText(Project(arrived[i], "stderr"))
      r == [stdout |-> out, stderr |-> err]
  IN  /\ closeCode[i] # <<>>
      /\ out # <<>> => HasPrefix(text, StdoutLabel \o out \o <<NL>>)
      /\ err # <<>> =>
           HasPrefix(AfterStdoutBlock(text, r), StderrLabel \o err \o <<NL>>)
      /\ IsExitCodeLine(LastLine(text))

\* C17: every tool invocation ends with the caller receiving a text that
\* holds what the tool printed and its numeric exit code: a tool call is
\* either still awaited by a running server, or has been answered so.
C17_CallerReceivesText ==
  \A i \in Calls :
    request[i] # <<>> =>
      \/ alive /\ promise[i] = "pending"
      \/ response[i] # <<>> /\ TextOfOutcome(response[i][1], i)

\* --------------------------------------------------------------------- C18
\* C18: a subprocess that could not be started yields no Command Result:
\* the promise of its invocation is never resolved, it stays pending until
\* the unhandled 'error' event ends the server, or is rejected when spawn
\* throws; and the server ends for no other reason.
C18_LaunchFailureNotNormalized ==
  /\ \A i \in Calls :
       /\ child[i] = "failing" =>
            /\ promise[i] = "pending"
            /\ result[i] = <<>>
            /\ alive => ENABLED LaunchError(i)
       /\ promise[i] = "rejected" => (child[i] = "none" /\ result[i] = <<>>)
  /\ ~alive => \E i \in Calls : child[i] = "failing"

\* The 'error' event of a subprocess that could not be started has ended
\* the server while the promise was pending.
C18_Witness ==
  /\ ~alive
  /\ \E i \in Calls :
       child[i] = "failing" /\ promise[i] = "pending" /\ result[i] = <<>>

\* --------------------------------------------------------------------- C19
\* C19: the promise of an invocation is resolved once, by the step of the
\* close event of its running subprocess, and the Command Result it was
\* resolved with is never changed afterwards, whatever event follows.
C19_ResolvedOnce ==
  [][\A i \in Calls :
       /\ result[i] # <<>> =>
            (result'[i] = result[i] /\ promise'[i] = "resolved")
       /\ (result[i] = <<>> /\ result'[i] # <<>>) =>
            /\ child[i] = "running" /\ child'[i] = "closed"
            /\ promise[i] = "pending" /\ promise'[i] = "resolved"
            /\ result'[i] =
                 <<CommandResultOf(stdout[i], stderr[i], closeCode'[i][1])>>]_vars

\* After the result was delivered a further chunk has changed the stdout
\* buffer and a second close event has carried another code: the result
\* still has the text and the code of the first close.
C19_Witness ==
  \E i \in Calls :
    /\ result[i] # <<>>
    /\ result[i][1].stdout # stdout[i]
    /\ result[i][1].stdout # <<>>
    /\ result[i][1].exitCode = JsNum(0)
    /\ closeCode[i] = <<JsNum(101)>>

\* --------------------------------------------------------------------- C20
\* C20: the run tool gives spawn: run; then --release iff release is set;
\* then --verbose iff verbose is set; then, iff the binary's argument list
\* is not empty, the separator -- followed by that list in its order.
C20_RunArguments ==
  \A i \in Calls :
    (request[i] # <<>> /\ request[i][1].tool = "run" /\ spawned[i] # <<>>) =>
      LET r == request[i][1]
          argv == spawned[i][1].args
          flags == (IF r.release THEN 1 ELSE 0) + (IF r.verbose THEN 1 ELSE 0)
      IN  /\ argv[1] = "run"
          /\ Len(argv) = 1 + flags
                           + (IF r.args # <<>> THEN 1 + Len(r.args) ELSE 0)
          /\ r.release => argv[2] = "--release"
          /\ r.verbose => argv[1 + flags] = "--verbose"
          /\ r.args # <<>> =>
               /\ argv[2 + flags] = "--"
               /\ SubSeq(argv, 3 + flags, Len(argv)) = r.args
          /\ r.args = <<>> => \A k \in DOMAIN argv : argv[k] # "--"

\* The run tool was called with release and verbose set and two arguments
\* for the binary.
C20_Witness ==
  \E i \in Calls :
    /\ request[i] # <<>>
    /\ request[i][1].tool = "run"
    /\ request[i][1].release
    /\ request[i][1].verbose
    /\ request[i][1].args = <<"y", "x">>
    /\ spawned[i] # <<>>
    /\ Len(spawned[i][1].args) = 6

\* --------------------------------------------------------------------- C21
\* The names of a non-empty list with a comma between neighbours, built
\* from the last name backwards.
RECURSIVE CommaSeparated(_)
CommaSeparated(names) ==
  IF Len(names) = 1 THEN names[1]
  ELSE CommaSeparated(SubSeq(names, 1, Len(names) - 1))
         \o "," \o names[Len(names)]

ExecutableFor(override, files) ==
  IF override # <<>> /\ override[1] # "" /\ override[1] \in files
  THEN override[1]
  ELSE IF \E k \in DOMAIN commonLocations : commonLocations[k] \in files
       THEN commonLocations[
              CHOOSE k \in DOMAIN commonLocations :
                /\ commonLocations[k] \in files
                /\ \A j \in DOMAIN commonLocations :
                     j < k => commonLocations[j] \notin files]
       ELSE "cargo"

\* C22: every runCargoCommand invocation spawns the executable that the
\* override variable and the existing paths give at the moment of that call,
\* whatever earlier calls resolved and whatever happened to them; the call
\* changes neither the variable nor the disk nor what earlier calls spawned.
C22_ResolvedAfresh ==
  [][\A i \in Calls :
       (spawned[i] = <<>> /\ spawned'[i] # <<>>) =>
         /\ Len(spawned'[i]) = 1
         /\ spawned'[i][1].file = ExecutableFor(cargoPathEnv, fs)
         /\ UNCHANGED envVars
         /\ \A j \in Calls \ {i} : spawned'[j] = spawned[j]]_vars

\* The first call spawned the override and completed; the override was then
\* unset and the second call spawned what the environment gives now, which
\* is another executable.
C22_Witness ==
  /\ spawned[1] # <<>>
  /\ spawned[2] # <<>>
  /\ result[1] # <<>>
  /\ spawned[1][1].file = OverridePath
  /\ cargoPathEnv = <<>>
  /\ spawned[2][1].file = ExecutableFor(cargoPathEnv, fs)
  /\ spawned[2][1].file # spawned[1][1].file

====
